---- MODULE Spec2Model ----
(***************************************************************************)
(* The Profile and Trending screens of opinions-frontend                   *)
(* (src/app/ProfileScreen.tsx, src/app/Trending.tsx): the mount-time       *)
(* fetch pipelines (stored user id -> post list -> per-post prompt         *)
(* fan-out -> join), the render decision, the category buttons and the     *)
(* navigation to Replies.                                                  *)
(*                                                                         *)
(* One screen is mounted per behaviour (`screen`).  Every `await` of the   *)
(* source is a point where the other pending continuations may run, so     *)
(* every await is the boundary between two actions; the code between two   *)
(* awaits runs to completion and is one action.  React state setters are   *)
(* modelled as assignments to the state variable they set.                 *)
(*                                                                         *)
(* Strings that the code parses (PostID, PromptID) are sequences of        *)
(* one-character strings; strings that the code only stores or compares    *)
(* are TLA+ strings.                                                       *)
(***************************************************************************)
EXTENDS Integers, Sequences, FiniteSets, TLC

VARIABLES
    screen,            \* which component is mounted: "Profile" or "Trending"
    storage,           \* AsyncStorage: the value under 'UserID', or that the read throws
    serverPosts,       \* the post list the service holds for the primary fetch
    net,               \* the network's behaviour towards the prompt fetches
    requests,          \* every fetch() call issued so far, by endpoint
    upc,               \* Profile: position of fetchUserData
    ppc,               \* position of fetchPosts
    srcPosts,          \* the array handed to the enricher (data.posts / sortedPosts)
    pstate,            \* per map callback: where its prompt fetch stands
    results,           \* the Promise.all result array, filled by index
    reordered,         \* history: some callback returned before one started earlier
    totalVotes,        \* Profile: the local `totalVotes` of fetchPosts
    posts,             \* useState: posts
    isLoading,         \* useState: isLoading (Profile) / loading (Trending)
    error,             \* Profile useState: error
    username,          \* Profile useState: username
    userLoading,       \* Profile useState: userLoading
    controversyScore,  \* Profile useState: controversyScore
    selectedCategory,  \* Trending useState: selectedCategory
    pressed,           \* the arguments of the last post press, if any
    navCall            \* the navigation.navigate call that press dispatched, if any

vars == <<screen, storage, serverPosts, net, requests, upc, ppc, srcPosts, pstate,
          results, reordered, totalVotes, posts, isLoading, error, username, userLoading,
          controversyScore, selectedCategory, pressed, navCall>>

envVars == <<screen, storage, serverPosts, net>>
enrichVars == <<srcPosts, pstate, results, reordered>>
profileOnly == <<upc, error, username, userLoading, controversyScore, totalVotes>>
uiVars == <<selectedCategory, pressed, navCall>>

-----------------------------------------------------------------------------
(* Bounds of the model.                                                    *)

MaxPosts == 3      \* longest post list of the interleaving specification
MaxFeed == 22      \* longest feed of the sort-and-truncate specification
MaxStride == 2     \* feed family: largest step between consecutive upvote counts
UpMod == 5         \* feed family: upvote counts are taken modulo this

-----------------------------------------------------------------------------
(* Values.                                                                 *)

Null == "<null>"

\* Trending.tsx:101, .slice(0, 20)
TopN == 20

\* Trending.tsx:34-45, the ids of `categories`
CategoryIds == {"sports", "music", "movies", "food", "fashion", "tech",
                "travel", "politics", "health", "fitness"}

DigitChars == <<"0", "1", "2", "3", "4", "5", "6", "7", "8", "9">>

IsDigit(c) == \E k \in 1..10 : DigitChars[k] = c

DigitVal(c) == (CHOOSE k \in 1..10 : DigitChars[k] = c) - 1

\* The decimal numeral of a natural number below 100, as a character sequence.
Digits(k) == IF k < 10 THEN <<DigitChars[k + 1]>>
             ELSE <<DigitChars[(k \div 10) + 1], DigitChars[(k % 10) + 1]>>

Min(a, b) == IF a <= b THEN a ELSE b

-----------------------------------------------------------------------------
(* Number(value), as used on the route parameters: ECMAScript ToNumber.   *)
(* undefined converts to NaN; a string is converted by StringToNumber:    *)
(* white space and line terminators are trimmed at both ends; the empty   *)
(* string is 0; "0x", "0o", "0b" (either case) followed by digits of that *)
(* radix is an unsigned integer; otherwise an optional sign followed by   *)
(* "Infinity" or by a decimal literal (digits with an optional point and  *)
(* an optional exponent); anything else is NaN.                           *)
(*                                                                         *)
(* A JS number is one of four records.  NaN.  An infinity of sign inf.    *)
(* The finite value val * 10^exp, written with val not divisible by 10    *)
(* (0 is val = 0, exp = 0; -0 is not told from 0).  Or Uncomputed: the    *)
(* number a numeric literal converts to, known not to be NaN, its value   *)
(* left open.  Whether a literal is NaN, and whether a decimal literal of *)
(* up to 17 significant digits rounds to zero or to an infinity, is       *)
(* decided for every string.  The value is computed for the decimal       *)
(* literals of up to 9 significant digits in the range of the normal      *)
(* doubles, where the literal's decimal value determines the double, and  *)
(* for the radix literals below 2^28 (hex), 2^30 (octal, binary); every   *)
(* other numeric literal (more digits, or in the subnormal range, where   *)
(* the double is a rounding of the literal) converts to Uncomputed.       *)

\* The value `undefined` where an id string is expected (a missing property).
Undefined == <<"<undefined>">>

NaN == [nan |-> TRUE, inf |-> 0, val |-> 0, exp |-> 0]

Infinite(sign) == [nan |-> FALSE, inf |-> sign, val |-> 0, exp |-> 0]

RECURSIVE Num(_, _)
Num(m, e) == IF m = 0 THEN [nan |-> FALSE, inf |-> 0, val |-> 0, exp |-> 0]
             ELSE IF m % 10 = 0 THEN Num(m \div 10, e + 1)
             ELSE [nan |-> FALSE, inf |-> 0, val |-> m, exp |-> e]

\* The number the numeric literal u converts to under the sign, not computed.
Uncomputed(sign, u) == [nan |-> FALSE, sign |-> sign, literal |-> u]

\* StrWhiteSpaceChar: space, tab, LF, CR, FF, and (as named tokens) U+000B,
\* U+00A0, U+FEFF, U+2028, U+2029 and the other space separators.
WhiteSpaceChars == {" ", "\t", "\n", "\r", "\f", "VT", "NBSP", "BOM", "LS", "PS", "USP"}

RECURSIVE TrimLeft(_)
TrimLeft(s) == IF s # <<>> /\ Head(s) \in WhiteSpaceChars THEN TrimLeft(Tail(s)) ELSE s

RECURSIVE TrimRight(_)
TrimRight(s) == IF s # <<>> /\ s[Len(s)] \in WhiteSpaceChars
                THEN TrimRight(SubSeq(s, 1, Len(s) - 1)) ELSE s

Trim(s) == TrimRight(TrimLeft(s))

AllDigits(s) == s # <<>> /\ \A k \in 1..Len(s) : IsDigit(s[k])

RECURSIVE DecimalValue(_)
DecimalValue(s) == IF s = <<>> THEN 0
                   ELSE 10 * DecimalValue(SubSeq(s, 1, Len(s) - 1)) + DigitVal(s[Len(s)])

HexLower == <<"a", "b", "c", "d", "e", "f">>
HexUpper == <<"A", "B", "C", "D", "E", "F">>

\* The value of a digit in radix 16, or 16 for any other character.
HexVal(c) ==
    IF IsDigit(c) THEN DigitVal(c)
    ELSE IF \E k \in 1..6 : HexLower[k] = c THEN 9 + (CHOOSE k \in 1..6 : HexLower[k] = c)
    ELSE IF \E k \in 1..6 : HexUpper[k] = c THEN 9 + (CHOOSE k \in 1..6 : HexUpper[k] = c)
    ELSE 16

AllRadixDigits(s, radix) == s # <<>> /\ \A k \in 1..Len(s) : HexVal(s[k]) < radix

RECURSIVE RadixValue(_, _)
RadixValue(s, radix) ==
    IF s = <<>> THEN 0
    ELSE radix * RadixValue(SubSeq(s, 1, Len(s) - 1), radix) + HexVal(s[Len(s)])

\* The radix a "0x" / "0o" / "0b" prefix announces, or 0.
PrefixRadix(t) ==
    IF Len(t) < 2 \/ t[1] # "0" THEN 0
    ELSE IF t[2] \in {"x", "X"} THEN 16
    ELSE IF t[2] \in {"o", "O"} THEN 8
    ELSE IF t[2] \in {"b", "B"} THEN 2
    ELSE 0

\* The first index of s that holds a character of C, or 0.
IndexOf(s, C) ==
    IF \E k \in 1..Len(s) : s[k] \in C
    THEN CHOOSE k \in 1..Len(s) : s[k] \in C /\ \A j \in 1..(k - 1) : s[j] \notin C
    ELSE 0

RECURSIVE StripLeadingZeros(_)
StripLeadingZeros(s) ==
    IF s # <<>> /\ Head(s) = "0" THEN StripLeadingZeros(Tail(s)) ELSE s

RECURSIVE StripTrailingZeros(_)
StripTrailingZeros(s) ==
    IF s # <<>> /\ s[Len(s)] = "0"
    THEN StripTrailingZeros(SubSeq(s, 1, Len(s) - 1)) ELSE s

\* The digits after a radix prefix: the integer they write, computed while it
\* stays below 2^28 (seven hex digits) or 2^30 (ten octal, thirty binary).
RadixLiteral(t, radix) ==
    LET d == SubSeq(t, 3, Len(t))
        longest == IF radix = 16 THEN 7 ELSE IF radix = 8 THEN 10 ELSE 30
    IN IF ~AllRadixDigits(d, radix) THEN NaN
       ELSE IF Len(StripLeadingZeros(d)) > longest THEN Uncomputed(1, t)
       ELSE Num(RadixValue(StripLeadingZeros(d), radix), 0)

\* The exponent part after "e": its optional sign and its digits.
ExponentSign(x) == IF x # <<>> /\ Head(x) = "-" THEN 0 - 1 ELSE 1

ExponentDigits(x) == IF x # <<>> /\ Head(x) \in {"+", "-"} THEN Tail(x) ELSE x

\* An exponent of more than four digits puts a literal of fewer than a
\* thousand characters beyond every double either way.
ExponentValue(x) ==
    LET d == StripLeadingZeros(ExponentDigits(x))
    IN ExponentSign(x) * (IF Len(d) > 4 THEN 10000 ELSE DecimalValue(d))

\* The leading 17 significant digits of the three magnitudes at which the
\* conversion changes, none of which has a decimal expansion that short:
\* 2^1024 - 2^970 = 1.7976931348623158079...e308, half-way between the largest
\* double and 2^1024, from which on a literal rounds to an infinity;
\* 2^-1075 = 2.4703282292062327208...e-324, half of the smallest double, up to
\* which a literal rounds to zero; 2^-1022 = 2.2250738585072013830...e-308, the
\* smallest normal double.  Each is written <<digits, top>>, its value being in
\* [10^(top-1), 10^top).
HalfToInfinity == <<<<"1", "7", "9", "7", "6", "9", "3", "1", "3", "4", "8", "6", "2", "3", "1", "5", "8">>, 309>>

HalfOfSmallest == <<<<"2", "4", "7", "0", "3", "2", "8", "2", "2", "9", "2", "0", "6", "2", "3", "2", "7">>, 0 - 323>>

SmallestNormal == <<<<"2", "2", "2", "5", "0", "7", "3", "8", "5", "8", "5", "0", "7", "2", "0", "1", "3">>, 0 - 307>>

\* The first n digits of a significand, zero-padded.
RECURSIVE Leading(_, _)
Leading(d, n) == IF Len(d) < n THEN Leading(Append(d, "0"), n) ELSE SubSeq(d, 1, n)

\* Where the magnitude 0.d * 10^top lies relative to a threshold known by its
\* leading digits: "above", "below", or "unknown" when d has more digits than
\* are known of the threshold and agrees with all of them.
Compare(d, top, threshold) ==
    LET known == threshold[1]
        p     == Leading(d, Len(known))
        diff  == {k \in 1..Len(known) : p[k] # known[k]}
        first == CHOOSE k \in diff : \A j \in diff : k <= j
    IN IF top > threshold[2] THEN "above"
       ELSE IF top < threshold[2] THEN "below"
       ELSE IF diff = {} THEN (IF Len(d) <= Len(known) THEN "below" ELSE "unknown")
       ELSE IF DigitVal(p[first]) > DigitVal(known[first]) THEN "above"
       ELSE "below"

\* StrUnsignedDecimalLiteral other than Infinity, with the sign it follows.
DecimalLiteral(u, sign) ==
    LET ePos == IndexOf(u, {"e", "E"})
        mant == IF ePos = 0 THEN u ELSE SubSeq(u, 1, ePos - 1)
        expo == IF ePos = 0 THEN <<>> ELSE SubSeq(u, ePos + 1, Len(u))
        dot  == IndexOf(mant, {"."})
        int  == IF dot = 0 THEN mant ELSE SubSeq(mant, 1, dot - 1)
        frac == IF dot = 0 THEN <<>> ELSE SubSeq(mant, dot + 1, Len(mant))
        wellFormed ==
            /\ int = <<>> \/ AllDigits(int)
            /\ frac = <<>> \/ AllDigits(frac)
            /\ Len(int) + Len(frac) >= 1
            /\ ePos = 0 \/ AllDigits(ExponentDigits(expo))
        all   == int \o frac
        cut   == StripTrailingZeros(all)
        digs  == StripLeadingZeros(cut)
        e     == (IF ePos = 0 THEN 0 ELSE ExponentValue(expo))
                    - Len(frac) + (Len(all) - Len(cut))
        top   == Len(digs) + e      \* the value is in [10^(top-1), 10^top)
        high  == Compare(digs, top, HalfToInfinity)
        low   == Compare(digs, top, HalfOfSmallest)
    IN IF ~wellFormed THEN NaN
       ELSE IF digs = <<>> THEN Num(0, 0)
       ELSE IF Len(u) >= 1000 THEN Uncomputed(sign, u)
       ELSE IF high = "above" THEN Infinite(sign)
       ELSE IF low = "below" THEN Num(0, 0)
       ELSE IF high = "unknown" \/ low = "unknown" THEN Uncomputed(sign, u)
       ELSE IF Compare(digs, top, SmallestNormal) # "above" THEN Uncomputed(sign, u)
       ELSE IF Len(digs) > 9 THEN Uncomputed(sign, u)
       ELSE Num(sign * DecimalValue(digs), e)

Infinity == <<"I", "n", "f", "i", "n", "i", "t", "y">>

StringToNumber(s) ==
    LET t == Trim(s)
        radix == PrefixRadix(t)
        signed == t # <<>> /\ Head(t) \in {"+", "-"}
        sign == IF t # <<>> /\ Head(t) = "-" THEN 0 - 1 ELSE 1
        u == IF signed THEN Tail(t) ELSE t
    IN IF t = <<>> THEN Num(0, 0)
       ELSE IF radix # 0 THEN RadixLiteral(t, radix)
       ELSE IF u = Infinity THEN Infinite(sign)
       ELSE DecimalLiteral(u, sign)

Number(v) == IF v = Undefined THEN NaN ELSE StringToNumber(v)

isNaN(x) == x.nan

-----------------------------------------------------------------------------
(* The stored user id.                                                     *)

\* What AsyncStorage.getItem('UserID') can do: resolve to null (no item), resolve
\* to a stored string, or reject.
StorageStates == {[throws |-> FALSE, value |-> Null],
                  [throws |-> FALSE, value |-> ""],
                  [throws |-> FALSE, value |-> "42"],
                  [throws |-> TRUE,  value |-> Null]}

\* getUserId: the stored value, or null when there is none or the read throws.
getUserId(st) == IF st.throws THEN Null ELSE st.value

\* A check for the empty string alone.
NoUserIdLenient(userId) == userId = ""

\* `!userId` on a string-or-null: null and the empty string are falsy.
NoUserId(userId) == userId = Null \/ userId = ""

-----------------------------------------------------------------------------
(* Posts and prompts.                                                      *)

MkPost(id, promptId, up, down) ==
    [PostID |-> id, PromptID |-> promptId, PostText |-> "text",
     UpvoteCount |-> up, DownvoteCount |-> down]

\* The posts the service may return in the interleaving specification: two
\* posts with equal upvotes, one whose PostID is not numeric, one whose
\* PromptID is not numeric.
PostPool == {MkPost(<<"1">>,           <<"1", "0">>, 5, 1),
             MkPost(<<"a", "b", "c">>, <<"1", "1">>, 5, 3),
             MkPost(<<" ", "7">>,      <<"x">>,      2, 0)}

\* A null element of the array in a malformed body, and the body that holds
\* one in place of its k-th post.
NullPost == [null |-> TRUE]

IsNull(p) == "null" \in DOMAIN p

WithNullAt(list, k) == [list EXCEPT ![k] = NullPost]

WellFormed(list) == \A i \in 1..Len(list) : ~IsNull(list[i])

\* post.PostID and post.PromptID of an object: undefined when it has no such
\* property.
PostIDOf(p) == IF "PostID" \in DOMAIN p THEN p.PostID ELSE Undefined

PromptIDOf(p) == IF "PromptID" \in DOMAIN p THEN p.PromptID ELSE Undefined

\* The JSON body GET /api/prompt/{id} answers with when it succeeds.
PromptOf(promptId) ==
    IF promptId = <<"1", "0">>
    THEN [PromptText |-> "prompt ten", Category |-> "sports"]
    ELSE [PromptText |-> "another prompt", Category |-> "music"]

\* { ...post, PromptText, Category }
Enriched(post, prompt) ==
    [PostID |-> post.PostID, PromptID |-> post.PromptID, PostText |-> post.PostText,
     UpvoteCount |-> post.UpvoteCount, DownvoteCount |-> post.DownvoteCount,
     PromptText |-> prompt.PromptText, Category |-> prompt.Category]

\* A fallback that keeps a placeholder category instead of the empty string.
FallbackPlaceholder(post) ==
    IF IsNull(post) THEN [PromptText |-> "", Category |-> "uncategorized"]
    ELSE Enriched(post, [PromptText |-> "", Category |-> "uncategorized"])

\* { ...post, PromptText: '', Category: '' }; spreading null adds nothing.
Fallback(post) ==
    IF IsNull(post) THEN [PromptText |-> "", Category |-> ""]
    ELSE Enriched(post, [PromptText |-> "", Category |-> ""])

\* A join that stores each result in completion order.
CollectByCompletion(res, i, r) == res @@ ((Cardinality(DOMAIN res) + 1) :> r)

\* Promise.all: the value of the i-th promise becomes the i-th element.
Collect(res, i, r) == res @@ (i :> r)

\* A total of the upvotes alone.
RECURSIVE SumUpvotes(_)
SumUpvotes(list) == IF list = <<>> THEN 0
                    ELSE Head(list).UpvoteCount + SumUpvotes(Tail(list))

\* The value of `totalVotes` once data.posts.map has called every callback:
\* each callback adds its post's votes before its first await.
RECURSIVE SumVotes(_)
SumVotes(list) ==
    IF list = <<>> THEN 0
    ELSE Head(list).UpvoteCount + Head(list).DownvoteCount + SumVotes(Tail(list))

-----------------------------------------------------------------------------
(* Trending: sort by upvotes, keep the first 20.                           *)

\* The comparator (a, b) => b.UpvoteCount - a.UpvoteCount is positive, i.e. a goes
\* after b, exactly when b has more upvotes.
GoesAfter(a, b) == b.UpvoteCount > a.UpvoteCount

\* Array.prototype.sort is stable: p goes behind every element already placed
\* that it does not have to precede.
RECURSIVE InsertSorted(_, _)
InsertSorted(p, sorted) ==
    IF sorted = <<>> THEN <<p>>
    ELSE IF GoesAfter(Head(sorted), p) THEN <<p>> \o sorted
    ELSE <<Head(sorted)>> \o InsertSorted(p, Tail(sorted))

RECURSIVE SortPosts(_)
SortPosts(list) ==
    IF list = <<>> THEN <<>>
    ELSE InsertSorted(list[Len(list)], SortPosts(SubSeq(list, 1, Len(list) - 1)))

\* A slice that is one too long.
SliceOneMore(list) == SubSeq(list, 1, Min(Len(list), TopN + 1))

\* .slice(0, 20)
Slice(list) == SubSeq(list, 1, Min(Len(list), TopN))


-----------------------------------------------------------------------------
(* What each screen renders.                                               *)

\* A renderPosts that looks at the list before it looks at the error.
ProfileViewPostsFirst(loadingNow, err, list) ==
    IF loadingNow THEN "spinner"
    ELSE IF Len(list) > 0 THEN "list"
    ELSE IF err # Null THEN "error"
    ELSE "empty"

\* ProfileScreen renderPosts: spinner, then error text, then "No posts yet",
\* then the cards.
ProfileView(loadingNow, err, list) ==
    IF loadingNow THEN "spinner"
    ELSE IF err # Null THEN "error"
    ELSE IF Len(list) = 0 THEN "empty"
    ELSE "list"

\* Trending: the spinner while loading, otherwise the page with the cards.
TrendingView(loadingNow) == IF loadingNow THEN "spinner" ELSE "list"

\* Trending: the cards of the page, posts.map(...) over the whole state.
TrendingCards(list, category) == list

ViewKind == IF screen = "Profile" THEN ProfileView(isLoading, error, posts)
            ELSE TrendingView(isLoading)

\* The posts a user can see and tap.
Cards == IF screen = "Profile"
         THEN (IF ProfileView(isLoading, error, posts) = "list" THEN posts ELSE <<>>)
         ELSE (IF TrendingView(isLoading) = "list"
               THEN TrendingCards(posts, selectedCategory) ELSE <<>>)

-----------------------------------------------------------------------------
(* The network.                                                            *)

\* How the prompt service behaves during one run.  "any": every request may
\* be rejected, answered with a non-success status, answered with an
\* unparsable body or answered properly, and responses arrive in any order.
\* "up" answers every request properly, "down" rejects every request, and
\* "fifo" delivers the responses in the order of the requests.

\* A callback that has returned: with the enriched post, with the fallback
\* after a failed prompt fetch, or ("nullPost") with the fallback after reading
\* post.PromptID of a null element threw inside its try.
Settled == {"ok", "failed", "nullPost"}

\* A callback that is over: returned, or ("threw") rejected by an exception
\* outside its try.
Finished == Settled \cup {"threw"}

ResponseAllowed(outcome) ==
    \/ net.prompt = "any"
    \/ net.prompt = "up" /\ outcome = "ok"
    \/ net.prompt = "down" /\ outcome = "reject"

JsonAllowed(outcome) ==
    \/ net.prompt = "any"
    \/ net.prompt = "up" /\ outcome = "ok"

TurnOf(i) ==
    \/ net.order = "any"
    \/ \A j \in 1..(i - 1) : pstate[j] \in Finished

NoRequests == [user |-> {}, posts |-> {}, feed |-> {}, prompt |-> {}]

PromptRequests(list) ==
    {<<i, list[i].PromptID>> : i \in {j \in 1..Len(list) : ~IsNull(list[j])}}

-----------------------------------------------------------------------------
(* Initial states: the screen has mounted and its effect has run up to the *)
(* first await of each async function it started.                          *)

PostLists == UNION {[1..n -> PostPool] : n \in 0..MaxPosts}

\* Feeds long enough to be truncated: n posts with distinct numeric ids whose
\* upvote counts step by a from b modulo UpMod, so that they arrive unsorted
\* and with ties.
Feed(n, a, b) ==
    [i \in 1..n |->
        MkPost(Digits(i), IF i % 2 = 0 THEN <<"1", "0">> ELSE <<"1", "1">>,
               (a * i + b) % UpMod, i % 3)]

Feeds == {Feed(n, a, b) : n \in 0..MaxFeed, a \in 0..MaxStride, b \in {0, UpMod - 1}}

InitState ==
    /\ srcPosts = <<>>
    /\ pstate = <<>>
    /\ results = <<>>
    /\ reordered = FALSE
    /\ totalVotes = 0
    /\ posts = <<>>
    /\ isLoading = TRUE
    /\ error = Null
    /\ username = ""
    /\ userLoading = TRUE
    /\ controversyScore = 0
    /\ selectedCategory = "all"
    /\ pressed = {}
    /\ navCall = {}

\* ProfileScreen: fetchUserData() and fetchPosts() both await getUserId().
InitProfile ==
    /\ screen = "Profile"
    /\ storage \in StorageStates
    /\ upc = "getId"
    /\ ppc = "getId"
    /\ requests = NoRequests
    /\ InitState

\* Trending: fetchPosts() awaits fetch('/api/posts').  The screen reads no
\* stored user id and starts no user-data fetch.  (loadFonts() touches none of
\* the component's state.)
InitTrending ==
    /\ screen = "Trending"
    /\ storage = [throws |-> FALSE, value |-> Null]
    /\ upc = "none"
    /\ ppc = "fetch"
    /\ requests = [NoRequests EXCEPT !.feed = {"/api/posts"}]
    /\ InitState

Init ==
    /\ serverPosts \in PostLists
    /\ net = [order |-> "any", prompt |-> "any"]
    /\ (InitProfile \/ InitTrending)

InitTop ==
    /\ serverPosts \in Feeds
    /\ net \in [order : {"fifo"}, prompt : {"up", "down"}]
    /\ InitTrending


-----------------------------------------------------------------------------
(* ProfileScreen: fetchUserData.                                           *)

\* getUserId() has resolved: without an id set the error and return (the
\* finally block clears userLoading), otherwise fetch /api/user/{userId}.
Profile_UserGotId ==
    /\ screen = "Profile" /\ upc = "getId"
    /\ LET userId == getUserId(storage) IN
       IF NoUserId(userId)
       THEN /\ error' = "User ID is not available"
            /\ userLoading' = FALSE
            /\ upc' = "noUser"
            /\ UNCHANGED requests
       ELSE /\ requests' = [requests EXCEPT !.user = @ \cup {userId}]
            /\ upc' = "fetch"
            /\ UNCHANGED <<error, userLoading>>
    /\ UNCHANGED <<envVars, uiVars, ppc, enrichVars, totalVotes, posts,
                   isLoading, username, controversyScore>>

\* The user fetch has settled: a rejection or a non-ok response is thrown and
\* caught; an ok response goes on to response.json().
Profile_UserResponse ==
    /\ screen = "Profile" /\ upc = "fetch"
    /\ \E outcome \in {"reject", "notOk", "ok"} :
         IF outcome = "ok"
         THEN /\ upc' = "json"
              /\ UNCHANGED <<error, userLoading>>
         ELSE /\ error' = "Failed to load user data"
              /\ userLoading' = FALSE
              /\ upc' = "failed"
    /\ UNCHANGED <<envVars, uiVars, requests, ppc, enrichVars, totalVotes,
                   posts, isLoading, username, controversyScore>>

\* response.json() of the user fetch has settled.
Profile_UserJson ==
    /\ screen = "Profile" /\ upc = "json"
    /\ \E outcome \in {"throws", "ok"} :
         IF outcome = "ok"
         THEN /\ username' = "alice"
              /\ userLoading' = FALSE
              /\ upc' = "done"
              /\ UNCHANGED error
         ELSE /\ error' = "Failed to load user data"
              /\ userLoading' = FALSE
              /\ upc' = "failed"
              /\ UNCHANGED username
    /\ UNCHANGED <<envVars, uiVars, requests, ppc, enrichVars, totalVotes,
                   posts, isLoading, controversyScore>>

-----------------------------------------------------------------------------
(* The prompt fan-out, the same code on both screens.                      *)

\* data.posts.map(async post => ...) / sortedPosts.map(...): every callback runs
\* up to its first await, which issues its prompt fetch.
StartEnrich(list) ==
    /\ srcPosts' = list
    /\ pstate' = [i \in 1..Len(list) |-> "fetching"]
    /\ results' = <<>>
    /\ reordered' = FALSE
    /\ requests' = [requests EXCEPT !.prompt = @ \cup PromptRequests(list)]
    /\ ppc' = "enrich"

\* Callback i returns r, which settles the i-th promise handed to Promise.all.
Return(i, how, r) ==
    /\ pstate' = [pstate EXCEPT ![i] = how]
    /\ results' = Collect(results, i, r)
    /\ reordered' = (reordered \/ \E j \in 1..(i - 1) : pstate[j] \notin Finished)

\* The prompt fetch of callback i has settled: a rejection is caught and a
\* non-ok response is answered at once, both with the fallback; an ok response
\* goes on to promptResponse.json().  A callback goes on after fetchPosts has
\* ended in its catch block (ppc = "failed"); what it returns is then used by
\* nobody.
EnrichResponse(i) ==
    /\ ppc \in {"enrich", "failed"} /\ pstate[i] = "fetching" /\ TurnOf(i)
    /\ \E outcome \in {"reject", "notOk", "ok"} :
         /\ ResponseAllowed(outcome)
         /\ IF outcome = "ok"
            THEN /\ pstate' = [pstate EXCEPT ![i] = "parsing"]
                 /\ UNCHANGED <<results, reordered>>
            ELSE Return(i, "failed", Fallback(srcPosts[i]))
    /\ UNCHANGED <<envVars, uiVars, profileOnly, requests, ppc, srcPosts, posts, isLoading>>

\* promptResponse.json() of callback i has settled: the post with the prompt's
\* PromptText and Category, or, when parsing throws, the fallback.
EnrichJson(i) ==
    /\ ppc \in {"enrich", "failed"} /\ pstate[i] = "parsing" /\ TurnOf(i)
    /\ \E outcome \in {"throws", "ok"} :
         /\ JsonAllowed(outcome)
         /\ IF outcome = "ok"
            THEN Return(i, "ok", Enriched(srcPosts[i], PromptOf(srcPosts[i].PromptID)))
            ELSE Return(i, "failed", Fallback(srcPosts[i]))
    /\ UNCHANGED <<envVars, uiVars, profileOnly, requests, ppc, srcPosts, posts, isLoading>>

\* Promise.all resolves once every callback has returned.
AllSettled == \A i \in 1..Len(srcPosts) : pstate[i] \in Settled

\* The array Promise.all resolves to.
Joined == [i \in 1..Len(srcPosts) |-> results[i]]

-----------------------------------------------------------------------------
(* ProfileScreen: fetchPosts.                                              *)

Profile_PostsGotId ==
    /\ screen = "Profile" /\ ppc = "getId"
    /\ LET userId == getUserId(storage) IN
       IF NoUserId(userId)
       THEN /\ error' = "User ID is not available"
            /\ isLoading' = FALSE
            /\ ppc' = "noUser"
            /\ UNCHANGED requests
       ELSE /\ requests' = [requests EXCEPT !.posts = @ \cup {userId}]
            /\ ppc' = "fetch"
            /\ UNCHANGED <<error, isLoading>>
    /\ UNCHANGED <<envVars, uiVars, upc, enrichVars, totalVotes, posts,
                   username, userLoading, controversyScore>>

\* The posts fetch has settled: a rejection is caught; any response, whatever
\* its status, goes on to response.json().
Profile_PostsResponse ==
    /\ screen = "Profile" /\ ppc = "fetch"
    /\ \E outcome \in {"reject", "response"} :
         IF outcome = "response"
         THEN /\ ppc' = "json"
              /\ UNCHANGED <<error, isLoading>>
         ELSE /\ error' = "Failed to load posts"
              /\ isLoading' = FALSE
              /\ ppc' = "failed"
    /\ UNCHANGED <<envVars, uiVars, requests, upc, enrichVars, totalVotes,
                   posts, username, userLoading, controversyScore>>

\* response.json() has settled.  "throws": the body is not JSON.  "shape": the
\* body is JSON without a posts array, and data.posts.map throws.  Both are
\* caught before any callback ran.  "ok": the votes are summed while the
\* callbacks are started.  "null": the k-th element of the array is null.  map
\* still calls every callback: the one of the null element throws at
\* `totalVotes += post.UpvoteCount`, outside its try, so its promise is
\* rejected; the others add their votes and issue their prompt fetch.  In both
\* of the last two cases fetchPosts then stops at `await Promise.all(...)`.
Profile_PostsJson ==
    /\ screen = "Profile" /\ ppc = "json"
    /\ \E outcome \in {"throws", "shape", "ok", "null"} :
         CASE outcome = "ok" ->
                /\ totalVotes' = SumVotes(serverPosts)
                /\ StartEnrich(serverPosts)
                /\ UNCHANGED <<error, isLoading>>
           [] outcome = "null" ->
                \E k \in 1..Len(serverPosts) :
                   LET data == WithNullAt(serverPosts, k)
                       NotNull(p) == ~IsNull(p)
                   IN /\ totalVotes' = SumVotes(SelectSeq(data, NotNull))
                      /\ srcPosts' = data
                      /\ pstate' = [i \in 1..Len(data) |->
                                       IF IsNull(data[i]) THEN "threw" ELSE "fetching"]
                      /\ results' = <<>>
                      /\ reordered' = FALSE
                      /\ requests' = [requests EXCEPT !.prompt = @ \cup PromptRequests(data)]
                      /\ ppc' = "rejected"
                      /\ UNCHANGED <<error, isLoading>>
           [] OTHER ->
                /\ error' = "Failed to load posts"
                /\ isLoading' = FALSE
                /\ ppc' = "failed"
                /\ UNCHANGED <<requests, enrichVars, totalVotes>>
    /\ UNCHANGED <<envVars, uiVars, upc, posts, username, userLoading, controversyScore>>

\* `await Promise.all(...)` throws: a callback's promise was rejected when map
\* returned, so fetchPosts resumes in its catch block, which sets the error, and
\* its finally block clears isLoading.  It resumes within the turn of the event
\* loop in which map ran: continuations of fetchUserData that are due in that
\* turn may run before it, the responses to the prompt fetches just issued
\* arrive after it.
Profile_Reject ==
    /\ screen = "Profile" /\ ppc = "rejected"
    /\ error' = "Failed to load posts"
    /\ isLoading' = FALSE
    /\ ppc' = "failed"
    /\ UNCHANGED <<envVars, uiVars, requests, upc, enrichVars, totalVotes, posts,
                   username, userLoading, controversyScore>>

Profile_PromptResponse == screen = "Profile" /\ \E i \in DOMAIN pstate : EnrichResponse(i)

Profile_PromptJson == screen = "Profile" /\ \E i \in DOMAIN pstate : EnrichJson(i)

\* setPosts(postsWithPrompts); setControversyScore(totalVotes); finally
\* setIsLoading(false).
Profile_Join ==
    /\ screen = "Profile" /\ ppc = "enrich" /\ AllSettled
    /\ posts' = Joined
    /\ controversyScore' = totalVotes
    /\ isLoading' = FALSE
    /\ ppc' = "done"
    /\ UNCHANGED <<envVars, uiVars, requests, upc, enrichVars, totalVotes,
                   error, username, userLoading>>

\* navigateToReplies: navigate with both ids converted, whatever they convert to.
Profile_PostPress ==
    /\ screen = "Profile"
    /\ \E k \in 1..Len(Cards) :
         /\ pressed' = {[postId |-> PostIDOf(Cards[k]), promptId |-> PromptIDOf(Cards[k])]}
         /\ navCall' = {[postId |-> Number(PostIDOf(Cards[k])),
                         promptId |-> Number(PromptIDOf(Cards[k]))]}
    /\ UNCHANGED <<envVars, profileOnly, requests, ppc, enrichVars, posts,
                   isLoading, selectedCategory>>

-----------------------------------------------------------------------------
(* Trending: fetchPosts.                                                   *)

\* fetch('/api/posts') has settled: a rejection is caught, logged, and the
\* spinner is taken down; a response goes on to response.json().
Trending_Response ==
    /\ screen = "Trending" /\ ppc = "fetch"
    /\ \E outcome \in {"reject", "response"} :
         IF outcome = "response"
         THEN /\ ppc' = "json"
              /\ UNCHANGED isLoading
         ELSE /\ isLoading' = FALSE
              /\ ppc' = "failed"
    /\ UNCHANGED <<envVars, uiVars, profileOnly, requests, enrichVars, posts>>

\* response.json() has settled.  "throws": the body is not JSON.  "shape": the
\* body is JSON but no array, and data.sort throws.  "ok": sort, slice, and
\* start the callbacks.  "null": the k-th element of the array is null.  With
\* two or more elements the comparator reads UpvoteCount of null and sort
\* throws, which is caught.  A single element is never compared: it is kept,
\* its callback throws inside its try while building the prompt URL, before
\* fetch is called, and returns the fallback of null at once.
Trending_Json ==
    /\ screen = "Trending" /\ ppc = "json"
    /\ \E outcome \in {"throws", "shape", "ok", "null"} :
         CASE outcome = "ok" ->
                /\ StartEnrich(Slice(SortPosts(serverPosts)))
                /\ UNCHANGED isLoading
           [] outcome = "null" /\ Len(serverPosts) = 1 ->
                LET data == WithNullAt(serverPosts, 1)
                IN /\ srcPosts' = Slice(data)
                   /\ pstate' = <<"nullPost">>
                   /\ results' = Collect(<<>>, 1, Fallback(data[1]))
                   /\ reordered' = FALSE
                   /\ ppc' = "enrich"
                   /\ UNCHANGED <<requests, isLoading>>
           [] OTHER ->
                /\ outcome = "null" => Len(serverPosts) >= 2
                /\ isLoading' = FALSE
                /\ ppc' = "failed"
                /\ UNCHANGED <<requests, enrichVars>>
    /\ UNCHANGED <<envVars, uiVars, profileOnly, posts>>

Trending_PromptResponse == screen = "Trending" /\ \E i \in DOMAIN pstate : EnrichResponse(i)

Trending_PromptJson == screen = "Trending" /\ \E i \in DOMAIN pstate : EnrichJson(i)

\* setPosts(postsWithPrompts); setLoading(false).
Trending_Join ==
    /\ screen = "Trending" /\ ppc = "enrich" /\ AllSettled
    /\ posts' = Joined
    /\ isLoading' = FALSE
    /\ ppc' = "done"
    /\ UNCHANGED <<envVars, uiVars, profileOnly, requests, enrichVars>>

\* handleCategoryPress: the pressed id, or 'all' when it was the selected one.
Trending_CategoryPress ==
    /\ screen = "Trending" /\ TrendingView(isLoading) = "list"
    /\ \E categoryId \in CategoryIds :
         selectedCategory' = IF selectedCategory = categoryId THEN "all" ELSE categoryId
    /\ UNCHANGED <<envVars, profileOnly, requests, ppc, enrichVars, posts,
                   isLoading, pressed, navCall>>

\* handlePostPress: convert both ids, return without navigating when either is
\* NaN, navigate otherwise.
Trending_PostPress ==
    /\ screen = "Trending"
    /\ \E k \in 1..Len(Cards) :
         LET numericPostId == Number(PostIDOf(Cards[k]))
             numericPromptId == Number(PromptIDOf(Cards[k]))
         IN /\ pressed' = {[postId |-> PostIDOf(Cards[k]), promptId |-> PromptIDOf(Cards[k])]}
            /\ navCall' = IF isNaN(numericPostId) \/ isNaN(numericPromptId)
                          THEN {}
                          ELSE {[postId |-> numericPostId, promptId |-> numericPromptId]}
    /\ UNCHANGED <<envVars, profileOnly, requests, ppc, enrichVars, posts,
                   isLoading, selectedCategory>>

-----------------------------------------------------------------------------
(* Specifications.                                                         *)

NextTrending ==
    \/ Trending_Response
    \/ Trending_Json
    \/ Trending_PromptResponse
    \/ Trending_PromptJson
    \/ Trending_Join
    \/ Trending_CategoryPress
    \/ Trending_PostPress

Next ==
    \/ Profile_UserGotId
    \/ Profile_UserResponse
    \/ Profile_UserJson
    \/ Profile_PostsGotId
    \/ Profile_PostsResponse
    \/ Profile_PostsJson
    \/ Profile_Reject
    \/ Profile_PromptResponse
    \/ Profile_PromptJson
    \/ Profile_Join
    \/ Profile_PostPress
    \/ NextTrending

\* Both screens, short post lists, every interleaving and every outcome of the
\* fetches.
Spec == Init /\ [][Next]_vars

\* Trending with feeds longer than the 20 posts it keeps, the prompt service
\* behaving uniformly.
SpecTop == InitTop /\ [][NextTrending]_vars


-----------------------------------------------------------------------------
(* Properties.                                                             *)

\* The pipeline's positions at which fetchUserData / fetchPosts has set `error`.
ErrorPositions == {"noUser", "failed"}

\* The fallback of a post, written out.
IsFallbackOf(e, post) ==
    /\ e.PostID = post.PostID /\ e.PromptID = post.PromptID
    /\ e.PostText = post.PostText
    /\ e.UpvoteCount = post.UpvoteCount /\ e.DownvoteCount = post.DownvoteCount
    /\ e.PromptText = "" /\ e.Category = ""

\* C1: on both screens a post whose prompt fetch failed (rejected, non-success
\* response, or unparsable body) is returned by its callback as the post with
\* PromptText = "" and Category = "", the stored list holds it at its place,
\* and a failed prompt fetch never takes fetchPosts to its catch block: once
\* callbacks were started the pipeline fails only when an element of the body
\* was null, and whenever every callback has returned the batch is, or can
\* be, stored.
C1_FailedPromptKeepsPost ==
    /\ \A i \in DOMAIN pstate :
         pstate[i] = "failed" =>
            /\ i \in DOMAIN results
            /\ IsFallbackOf(results[i], srcPosts[i])
    /\ ppc = "done" =>
         /\ Len(posts) = Len(srcPosts)
         /\ \A i \in DOMAIN pstate :
              pstate[i] = "failed" => IsFallbackOf(posts[i], srcPosts[i])
    /\ (ppc = "failed" /\ pstate # <<>>) => \E k \in DOMAIN pstate : pstate[k] = "threw"
    /\ (pstate # <<>> /\ AllSettled) => ppc \in {"enrich", "done"}

\* C1 witness: a finished pipeline in which one prompt fetch failed and another
\* succeeded, the failed post stored with empty fields.
C1_Witness ==
    /\ ppc = "done"
    /\ \E i, j \in DOMAIN pstate :
         /\ pstate[i] = "failed" /\ pstate[j] = "ok"
         /\ posts[i].PromptText = "" /\ posts[i].Category = ""
         /\ posts[j].PromptText # ""

\* C2: whatever the order in which the prompt fetches complete, every result is
\* filed under the index of its post, and the stored list has the length of
\* the list handed to the enricher, its i-th element being the enrichment (or
\* the fallback) of the i-th input post.
C2_OrderPreserved ==
    /\ \A i \in DOMAIN results :
         /\ i \in 1..Len(srcPosts)
         /\ pstate[i] \in Settled
         /\ ~IsNull(srcPosts[i]) => results[i].PostID = srcPosts[i].PostID
    /\ ppc = "done" =>
         /\ Len(posts) = Len(srcPosts)
         /\ \A i \in {j \in 1..Len(srcPosts) : ~IsNull(srcPosts[j])} :
              /\ posts[i].PostID = srcPosts[i].PostID
              /\ posts[i].PromptID = srcPosts[i].PromptID
              /\ posts[i].UpvoteCount = srcPosts[i].UpvoteCount
              /\ posts[i].DownvoteCount = srcPosts[i].DownvoteCount
              /\ pstate[i] = "ok" =>
                   /\ posts[i].PromptText = PromptOf(srcPosts[i].PromptID).PromptText
                   /\ posts[i].Category = PromptOf(srcPosts[i].PromptID).Category

\* C2 witness: a finished pipeline over three posts, the first two different,
\* whose prompt fetches completed out of order.
C2_Witness ==
    /\ ppc = "done"
    /\ reordered
    /\ Len(posts) = 3
    /\ posts[1].PostID # posts[2].PostID
    /\ posts[1].PostID = srcPosts[1].PostID

\* The votes of the posts at the indices in S.
RECURSIVE VotesAt(_, _)
VotesAt(list, S) ==
    IF S = {} THEN 0
    ELSE LET i == CHOOSE k \in S : TRUE
         IN list[i].UpvoteCount + list[i].DownvoteCount + VotesAt(list, S \ {i})

\* C3: Profile, once fetchPosts has completed after a successful posts fetch:
\* the controversy score is the sum of UpvoteCount + DownvoteCount over the
\* fetched posts, each index counted once, whatever the completion order and
\* whichever prompt fetches failed.
C3_ControversyScore ==
    (screen = "Profile" /\ ppc = "done") =>
        controversyScore = VotesAt(serverPosts, 1..Len(serverPosts))

\* C3 witness: posts with votes (5,1) and (2,0), one prompt fetch failed, the
\* fetches completed out of order, score 8.
C3_Witness ==
    /\ screen = "Profile" /\ ppc = "done"
    /\ Len(serverPosts) = 2
    /\ serverPosts[1].UpvoteCount = 5 /\ serverPosts[1].DownvoteCount = 1
    /\ serverPosts[2].UpvoteCount = 2 /\ serverPosts[2].DownvoteCount = 0
    /\ pstate[1] = "ok" /\ pstate[2] = "failed"
    /\ reordered
    /\ posts[2].PromptText = ""
    /\ controversyScore = 8

StoredIds == {posts[k].PostID : k \in 1..Len(posts)}

\* C4: Trending, once fetchPosts has completed on a list of n posts (no element
\* null): the stored list has min(n, 20) entries, each of them one of those
\* posts, in non-increasing order of UpvoteCount, and no post left out has more
\* upvotes than a post kept.
C4_TopTwenty ==
    (screen = "Trending" /\ ppc = "done" /\ WellFormed(srcPosts)) =>
        /\ Len(posts) = Min(Len(serverPosts), 20)
        /\ Len(serverPosts) > 20 => Len(posts) = 20
        /\ \A k \in 1..Len(posts) :
             \E i \in 1..Len(serverPosts) :
                /\ serverPosts[i].PostID = posts[k].PostID
                /\ serverPosts[i].UpvoteCount = posts[k].UpvoteCount
        /\ \A k \in 1..(Len(posts) - 1) : posts[k].UpvoteCount >= posts[k + 1].UpvoteCount
        /\ \A i \in 1..Len(serverPosts) :
             serverPosts[i].PostID \notin StoredIds =>
                \A k \in 1..Len(posts) : serverPosts[i].UpvoteCount <= posts[k].UpvoteCount

\* C4 witness: a feed of more than 20 posts that arrived unsorted, stored as 20
\* posts, the first with more upvotes than the last, some post left out.
C4_Witness ==
    /\ screen = "Trending" /\ ppc = "done"
    /\ Len(serverPosts) > 20
    /\ Len(posts) = 20
    /\ serverPosts[1].UpvoteCount < serverPosts[2].UpvoteCount
    /\ posts[1].UpvoteCount > posts[20].UpvoteCount
    /\ \E i \in 1..Len(serverPosts) : serverPosts[i].PostID \notin StoredIds

\* C5: Profile with no stored user id (getUserId gives null): no request of any
\* kind is ever issued and no callback is started; once fetchUserData has
\* passed getUserId it has ended with the error set and userLoading cleared,
\* and once fetchPosts has passed getUserId it has ended with the error set,
\* isLoading cleared, and the error text rendered.
C5_NoUserNoRequest ==
    (screen = "Profile" /\ getUserId(storage) = Null) =>
        /\ requests = NoRequests
        /\ srcPosts = <<>> /\ pstate = <<>> /\ results = <<>> /\ posts = <<>>
        /\ upc # "getId" =>
             upc = "noUser" /\ error = "User ID is not available" /\ ~userLoading
        /\ ppc # "getId" =>
             /\ ppc = "noUser" /\ error = "User ID is not available" /\ ~isLoading
             /\ ViewKind = "error"

\* C5 witness: nothing stored under 'UserID', both fetches ended at the check.
C5_Witness ==
    /\ screen = "Profile"
    /\ ~storage.throws /\ storage.value = Null
    /\ upc = "noUser" /\ ppc = "noUser"
    /\ error = "User ID is not available"

\* C6 (as claimed): on both screens, a press on a post whose PostID or PromptID
\* does not convert to a number dispatches no navigate call.
C6_NonNumericAborts ==
    \A p \in pressed :
        (isNaN(Number(p.postId)) \/ isNaN(Number(p.promptId))) => navCall = {}

\* C7 (as claimed): on both screens, when the primary post-list fetch fails
\* (rejected, or its body does not decode into posts), the screen shows an error string,
\* no prompt fetch is issued and the stored list is not replaced.
C7_PrimaryFailureShown ==
    ppc = "failed" =>
        /\ ViewKind = "error"
        /\ requests.prompt = {}
        /\ posts = <<>>

\* The stored list restricted to a category, or whole under 'all'.
FilteredBy(list, category) ==
    LET InCategory(p) == p.Category = category
    IN IF category = "all" THEN list ELSE SelectSeq(list, InCategory)

\* C8 (as claimed): Trending, after every step: the cards shown are the stored
\* list restricted to the selected category (the whole list under 'all'); a
\* step that changes the selection leaves the stored list alone, and it
\* returns to 'all' only from an active category.
C8_CategoryFilter ==
    [][(screen = "Trending" /\ TrendingView(isLoading') = "list") =>
          /\ Cards' = FilteredBy(posts', selectedCategory')
          /\ selectedCategory' # selectedCategory =>
               /\ posts' = posts
               /\ selectedCategory' \in CategoryIds \cup {"all"}
               /\ selectedCategory' = "all" => selectedCategory \in CategoryIds]_vars

\* What a screen shows: the kind of view and the cards in it.
Render == <<ViewKind, Cards>>

\* What a screen shows while loading.
LoadingRender ==
    IF screen = "Profile" THEN <<ProfileView(TRUE, error, posts), <<>>>>
    ELSE <<TrendingView(TRUE), <<>>>>

\* What a screen shows after its post-list fetch failed: the list is still the
\* initial one; Profile has set its error, Trending has no error state.
FailedRender ==
    IF screen = "Profile" THEN <<ProfileView(FALSE, "Failed to load posts", <<>>), <<>>>>
    ELSE <<TrendingView(FALSE), TrendingCards(<<>>, selectedCategory)>>

\* C9 (as claimed): on both screens, when the post-list fetch succeeded with an
\* empty list and the pipeline has completed, the screen shows a "no posts"
\* state, which is neither what it shows while loading nor what it shows after
\* a failed fetch.
C9_EmptyStateDistinct ==
    (ppc = "done" /\ Len(serverPosts) = 0) =>
        /\ ViewKind = "empty"
        /\ Render # LoadingRender
        /\ Render # FailedRender

\* C10: Profile: an error set by either fetch stays set, and once isLoading is
\* false the post list or "No posts yet" is shown only if neither fetch has set
\* an error; after an error of either fetch the error text is shown instead.
C10_SharedError ==
    screen = "Profile" =>
        /\ (upc \in ErrorPositions \/ ppc \in ErrorPositions) => error # Null
        /\ (~isLoading /\ ViewKind \in {"list", "empty"}) =>
              (upc \notin ErrorPositions /\ ppc \notin ErrorPositions)
        /\ (~isLoading /\ (upc \in ErrorPositions \/ ppc \in ErrorPositions)) =>
              ViewKind = "error"

\* C10 witness: the posts were fetched and stored, the user-data fetch failed,
\* and the screen shows the user-data error in place of the posts.
C10_Witness ==
    /\ screen = "Profile"
    /\ ppc = "done" /\ Len(posts) > 0
    /\ upc = "failed"
    /\ ~isLoading
    /\ error = "Failed to load user data"
    /\ ViewKind = "error"


====
